---- MODULE Spec2Model ----
(***************************************************************************)
(* Model of docs/script.ts: the ReversiBoard rules engine and the          *)
(* ReversiAI move selector.                                                *)
(*                                                                         *)
(* JavaScript arrays are reference objects.  The model keeps them on a     *)
(* heap: `heap` is the sequence of row arrays allocated so far, a row      *)
(* reference is an index into it, and a ReversiBoard object is a record    *)
(* whose field `board` is the sequence of its row references, so that two  *)
(* boards sharing a row array is a state the model can express.            *)
(***************************************************************************)
EXTENDS Integers, Sequences, FiniteSets, TLC

\* ------------------------------------------------------------------ bounds
\* Half of the side of the boards explored (the constructor takes any size).
HalfSize == 2
\* Accepted moves explored on one board object.
MaxMoves == 4
\* Largest maxDepth given to a ReversiAI.
MaxDepth == 2
\* Accepted moves explored on a board the AI is asked about.
MaxSearchedMoves == 3
\* Accepted moves explored on a board and its clone together.
MaxClonedMoves == 3
\* Accepted moves explored on a board of any size right after its construction.
MaxNewMoves == 1
\* Moves played in turn on a board the greedy and depth-1 choices are made on.
MaxChoiceMoves == 3
\* aiTurn timers pending at once in the game loop.
MaxTimers == 2

\* ---------------------------------------------------- the program's numbers
\* The side of the board the page plays on: new ReversiBoard(8).
GameSize == 8
\* const humanPlayer = 1; const aiPlayer = -1; new ReversiAI("minimax", 3)
humanPlayer == 1
aiPlayer == -1
AiStrategy == "minimax"
AiDepth == 3

Size == 2 * HalfSize

Players == {1, -1}

\* Coordinates handed to the board: one step outside [0, size) on each side.
Coords == -1 .. Size

Strategies == {"random", "greedy", "minimax"}

\* ------------------------------------------------------------ ReversiBoard
directions ==
  << <<1, 0>>, <<-1, 0>>, <<0, 1>>, <<0, -1>>,
     <<1, 1>>, <<1, -1>>, <<-1, 1>>, <<-1, -1>> >>

\* init() splitting the centre by rows instead of diagonally.
InitGridRowSplit(n) ==
  LET mid == n \div 2
  IN  [r \in 1 .. n |->
        [c \in 1 .. n |->
          IF r = mid /\ (c = mid \/ c = mid + 1) THEN -1
          ELSE IF r = mid + 1 /\ (c = mid \/ c = mid + 1) THEN 1
          ELSE 0]]

\* The four centre stones written by init() into a fresh n x n grid, n even.
InitGrid(n) ==
  LET mid == n \div 2
  IN  [r \in 1 .. n |->
        [c \in 1 .. n |->
          IF (r = mid /\ c = mid) \/ (r = mid + 1 /\ c = mid + 1) THEN -1
          ELSE IF (r = mid /\ c = mid + 1) \/ (r = mid + 1 /\ c = mid) THEN 1
          ELSE 0]]

\* board[y][x] of object b on heap h (x, y zero-based and in bounds).
At(h, b, x, y) == h[b.board[y + 1]][x + 1]

inBounds(b, x, y) == x >= 0 /\ x < b.size /\ y >= 0 /\ y < b.size

\* Number of opponent cells met walking from (nx, ny) in direction (dx, dy):
\* the while loops of isValidMove and applyMove.
RECURSIVE Walk(_, _, _, _, _, _, _)
Walk(h, b, nx, ny, dx, dy, player) ==
  IF inBounds(b, nx, ny) /\ At(h, b, nx, ny) = -player
  THEN 1 + Walk(h, b, nx + dx, ny + dy, dx, dy, player)
  ELSE 0

\* DirectionCaptures without the foundOpponent flag.
DirectionCapturesAnyRun(h, b, x, y, d, player) ==
  LET dx == d[1]
      dy == d[2]
      k  == Walk(h, b, x + dx, y + dy, dx, dy, player)
      nx == x + (k + 1) * dx
      ny == y + (k + 1) * dy
  IN  inBounds(b, nx, ny) /\ At(h, b, nx, ny) = player

\* The test of isValidMove for one direction (lines 41-54).
DirectionCaptures(h, b, x, y, d, player) ==
  LET dx == d[1]
      dy == d[2]
      k  == Walk(h, b, x + dx, y + dy, dx, dy, player)
      nx == x + (k + 1) * dx
      ny == y + (k + 1) * dy
      foundOpponent == k > 0
  IN  foundOpponent /\ inBounds(b, nx, ny) /\ At(h, b, nx, ny) = player

\* The for loop of isValidMove from direction i on, returning at the first hit.
RECURSIVE ScanDirections(_, _, _, _, _, _)
ScanDirections(h, b, x, y, player, i) ==
  IF i > Len(directions) THEN FALSE
  ELSE IF DirectionCaptures(h, b, x, y, directions[i], player) THEN TRUE
  ELSE ScanDirections(h, b, x, y, player, i + 1)

\* this.board[y] is undefined when y is no row index, and reading [x] of
\* undefined throws a TypeError.
RowMissing(b, y) == ~(y >= 0 /\ y < b.size)

\* this.board[y][x] is undefined when x is no column index of an existing row.
CellMissing(b, x, y) == ~RowMissing(b, y) /\ ~(x >= 0 /\ x < b.size)

\* isValidMove for a call that does not throw.  An undefined cell is !== 0.
isValidMove(h, b, x, y, player) ==
  IF CellMissing(b, x, y) THEN FALSE
  ELSE IF At(h, b, x, y) # 0 THEN FALSE
  ELSE ScanDirections(h, b, x, y, player, 1)

\* getValidMoves: the row-major scan (y outer, x inner), cells numbered
\* i = y * size + x.
RECURSIVE ScanCells(_, _, _, _)
ScanCells(h, b, player, i) ==
  IF i >= b.size * b.size THEN << >>
  ELSE LET x == i % b.size
           y == i \div b.size
       IN  IF isValidMove(h, b, x, y, player)
           THEN << <<x, y>> >> \o ScanCells(h, b, player, i + 1)
           ELSE ScanCells(h, b, player, i + 1)

getValidMoves(h, b, player) == ScanCells(h, b, player, 0)

\* Write v into board[y][x] of object b.
Store(h, b, x, y, v) ==
  [h EXCEPT ![b.board[y + 1]] = [@ EXCEPT ![x + 1] = v]]

\* FlipRun leaving out the first cell of the run.
RECURSIVE FlipRunShort(_, _, _, _, _, _, _, _)
FlipRunShort(h, b, x, y, dx, dy, k, player) ==
  IF k <= 1 THEN h
  ELSE FlipRunShort(Store(h, b, x + k * dx, y + k * dy, player),
                    b, x, y, dx, dy, k - 1, player)

\* for (const [fx, fy] of flips) this.board[fy][fx] = player, the flips being
\* the k cells after (x, y) in direction (dx, dy).
RECURSIVE FlipRun(_, _, _, _, _, _, _, _)
FlipRun(h, b, x, y, dx, dy, k, player) ==
  IF k = 0 THEN h
  ELSE FlipRun(Store(h, b, x + k * dx, y + k * dy, player),
               b, x, y, dx, dy, k - 1, player)

\* FlipDirection without the test of the cell that ends the run.
FlipDirectionUnchecked(h, b, x, y, d, player) ==
  LET dx == d[1]
      dy == d[2]
      k  == Walk(h, b, x + dx, y + dy, dx, dy, player)
  IN  FlipRun(h, b, x, y, dx, dy, k, player)

\* One iteration of applyMove's direction loop (lines 77-90).
FlipDirection(h, b, x, y, d, player) ==
  LET dx == d[1]
      dy == d[2]
      k  == Walk(h, b, x + dx, y + dy, dx, dy, player)
      nx == x + (k + 1) * dx
      ny == y + (k + 1) * dy
  IN  IF inBounds(b, nx, ny) /\ At(h, b, nx, ny) = player
      THEN FlipRun(h, b, x, y, dx, dy, k, player)
      ELSE h

\* applyMove's direction loop from direction i on, each on the grid as the
\* earlier directions left it.
RECURSIVE FlipDirections(_, _, _, _, _, _)
FlipDirections(h, b, x, y, player, i) ==
  IF i > Len(directions) THEN h
  ELSE FlipDirections(FlipDirection(h, b, x, y, directions[i], player),
                      b, x, y, player, i + 1)

switchPlayer(b) == [b EXCEPT !.currentPlayer = -b.currentPlayer]

\* applyMove switching the turn before it rejects.
applyMoveSwitchFirst(h, b, x, y, player) ==
  IF ~isValidMove(h, b, x, y, player)
  THEN [ret |-> FALSE, heap |-> h, obj |-> switchPlayer(b)]
  ELSE [ret  |-> TRUE,
        heap |-> FlipDirections(Store(h, b, x, y, player), b, x, y, player, 1),
        obj  |-> switchPlayer(b)]

\* applyMove for a call that does not throw: the return value, the heap and
\* the object after the call.
applyMove(h, b, x, y, player) ==
  IF ~isValidMove(h, b, x, y, player)
  THEN [ret |-> FALSE, heap |-> h, obj |-> b]
  ELSE [ret  |-> TRUE,
        heap |-> FlipDirections(Store(h, b, x, y, player), b, x, y, player, 1),
        obj  |-> switchPlayer(b)]

\* isGameOver asking only about the player to move.
isGameOverToMove(h, b) ==
  Len(getValidMoves(h, b, b.currentPlayer)) = 0

isGameOver(h, b) ==
  Len(getValidMoves(h, b, 1)) = 0 /\ Len(getValidMoves(h, b, -1)) = 0

\* countStones: the number of cells of object b holding v.
RECURSIVE CountCells(_, _, _, _)
CountCells(h, b, v, i) ==
  IF i >= b.size * b.size THEN 0
  ELSE (IF At(h, b, i % b.size, i \div b.size) = v THEN 1 ELSE 0)
       + CountCells(h, b, v, i + 1)

countStones(h, b) ==
  [black |-> CountCells(h, b, 1, 0), white |-> CountCells(h, b, -1, 0)]

\* clone sharing the row arrays with the original (a shallow copy).
cloneShallow(h, b) ==
  [heap |-> h,
   obj  |-> [size |-> b.size, board |-> b.board,
             currentPlayer |-> b.currentPlayer]]

\* clone leaving the copy's currentPlayer as the constructor set it.
cloneFirstTurn(h, b) ==
  [heap |-> h \o [r \in 1 .. b.size |-> h[b.board[r]]],
   obj  |-> [size |-> b.size,
             board |-> [r \in 1 .. b.size |-> Len(h) + r],
             currentPlayer |-> 1]]

\* clone: a new object whose rows are fresh copies of the rows of b.  The grid
\* that new ReversiBoard(size) built for the copy is replaced at line 28 and
\* unreachable from then on; it is not kept on the heap.
clone(h, b) ==
  [heap |-> h \o [r \in 1 .. b.size |-> h[b.board[r]]],
   obj  |-> [size |-> b.size,
             board |-> [r \in 1 .. b.size |-> Len(h) + r],
             currentPlayer |-> b.currentPlayer]]

\* The heap once the rows allocated after h0 are unreachable: a tmp board
\* going out of scope.
Release(h0, h1) == SubSeq(h1, 1, Len(h0))

\* --------------------------------------------------------------- ReversiAI
\* The no-move signal null; a move is the pair <<x, y>>.
Null == << >>

\* bestScore, maxEval and minEval start at an infinity, written << >>; a
\* score s seen is written <<s>>.
Infinite == << >>

\* score > best, best starting at -Infinity.
Above(score, best) == best = Infinite \/ score > best[1]

\* score < best, best starting at +Infinity.
Below(score, best) == best = Infinite \/ score < best[1]

\* chooseRandom returning the pair the wrong way round.
chooseRandomSwapped(moves, idx) == <<moves[idx + 1][2], moves[idx + 1][1]>>

\* chooseRandom: idx is Math.floor(Math.random() * moves.length), any index
\* of moves.
chooseRandom(moves, idx) == moves[idx + 1]

\* player === 1 ? black - white : white - black
StoneDiff(h, b, player) ==
  LET c == countStones(h, b)
  IN  IF player = 1 THEN c.black - c.white ELSE c.white - c.black

\* GreedyLoop replacing the best move on an equal score too.
RECURSIVE GreedyLoopLastWins(_, _, _, _, _, _, _)
GreedyLoopLastWins(h, b, player, moves, i, bestMove, bestScore) ==
  IF i > Len(moves) THEN [move |-> bestMove, heap |-> h]
  ELSE LET tmp   == clone(h, b)
           a     == applyMove(tmp.heap, tmp.obj, moves[i][1], moves[i][2], player)
           score == StoneDiff(a.heap, a.obj, player)
           h2    == Release(h, a.heap)
       IN  IF bestScore = Infinite \/ score >= bestScore[1]
           THEN GreedyLoopLastWins(h2, b, player, moves, i + 1, moves[i], <<score>>)
           ELSE GreedyLoopLastWins(h2, b, player, moves, i + 1, bestMove, bestScore)

\* The loop of chooseGreedy from move i on: the move chosen, and the heap the
\* loop leaves.
RECURSIVE GreedyLoop(_, _, _, _, _, _, _)
GreedyLoop(h, b, player, moves, i, bestMove, bestScore) ==
  IF i > Len(moves) THEN [move |-> bestMove, heap |-> h]
  ELSE LET tmp   == clone(h, b)
           a     == applyMove(tmp.heap, tmp.obj, moves[i][1], moves[i][2], player)
           score == StoneDiff(a.heap, a.obj, player)
           h2    == Release(h, a.heap)
       IN  IF Above(score, bestScore)
           THEN GreedyLoop(h2, b, player, moves, i + 1, moves[i], <<score>>)
           ELSE GreedyLoop(h2, b, player, moves, i + 1, bestMove, bestScore)

chooseGreedy(h, b, player, moves) ==
  GreedyLoop(h, b, player, moves, 1, moves[1], Infinite)

\* The corner term of evaluate from corner i on.
Corners(b) ==
  << <<0, 0>>, <<0, b.size - 1>>, <<b.size - 1, 0>>, <<b.size - 1, b.size - 1>> >>

\* CornerScore counting the player's own corners only.
RECURSIVE CornerScoreOwnOnly(_, _, _, _)
CornerScoreOwnOnly(h, b, player, i) ==
  IF i > Len(Corners(b)) THEN 0
  ELSE (IF At(h, b, Corners(b)[i][1], Corners(b)[i][2]) = player THEN 5 ELSE 0)
       + CornerScoreOwnOnly(h, b, player, i + 1)

RECURSIVE CornerScore(_, _, _, _)
CornerScore(h, b, player, i) ==
  IF i > Len(Corners(b)) THEN 0
  ELSE LET v == At(h, b, Corners(b)[i][1], Corners(b)[i][2])
       IN  (IF v = player THEN 5 ELSE 0) + (IF v = -player THEN -5 ELSE 0)
           + CornerScore(h, b, player, i + 1)

evaluate(h, b, player) ==
  StoneDiff(h, b, player) * 1 + CornerScore(h, b, player, 1)

\* minimax: the score, and the heap the search leaves.  MaxLoop and MinLoop
\* are its two for loops from move i on.
RECURSIVE minimax(_, _, _, _, _)
RECURSIVE MaxLoop(_, _, _, _, _, _, _, _)
RECURSIVE MinLoop(_, _, _, _, _, _, _, _)

MaxLoop(h, b, depth, currentPlayer, maximizingPlayer, moves, i, maxEval) ==
  IF i > Len(moves) THEN [score |-> maxEval[1], heap |-> h]
  ELSE LET tmp == clone(h, b)
           a   == applyMove(tmp.heap, tmp.obj, moves[i][1], moves[i][2], currentPlayer)
           e   == minimax(a.heap, a.obj, depth - 1, -currentPlayer, maximizingPlayer)
           h2  == Release(h, e.heap)
       IN  MaxLoop(h2, b, depth, currentPlayer, maximizingPlayer, moves, i + 1,
                   IF Above(e.score, maxEval) THEN <<e.score>> ELSE maxEval)

\* MinLoop keeping the largest child value.
RECURSIVE MinLoopMaximizes(_, _, _, _, _, _, _, _)
MinLoopMaximizes(h, b, depth, currentPlayer, maximizingPlayer, moves, i, minEval) ==
  IF i > Len(moves) THEN [score |-> minEval[1], heap |-> h]
  ELSE LET tmp == clone(h, b)
           a   == applyMove(tmp.heap, tmp.obj, moves[i][1], moves[i][2], currentPlayer)
           e   == minimax(a.heap, a.obj, depth - 1, -currentPlayer, maximizingPlayer)
           h2  == Release(h, e.heap)
       IN  MinLoopMaximizes(h2, b, depth, currentPlayer, maximizingPlayer, moves,
                            i + 1,
                            IF Above(e.score, minEval) THEN <<e.score>> ELSE minEval)

MinLoop(h, b, depth, currentPlayer, maximizingPlayer, moves, i, minEval) ==
  IF i > Len(moves) THEN [score |-> minEval[1], heap |-> h]
  ELSE LET tmp == clone(h, b)
           a   == applyMove(tmp.heap, tmp.obj, moves[i][1], moves[i][2], currentPlayer)
           e   == minimax(a.heap, a.obj, depth - 1, -currentPlayer, maximizingPlayer)
           h2  == Release(h, e.heap)
       IN  MinLoop(h2, b, depth, currentPlayer, maximizingPlayer, moves, i + 1,
                   IF Below(e.score, minEval) THEN <<e.score>> ELSE minEval)

\* minimax scoring a node whose mover cannot move as a leaf.
minimaxPassIsLeaf(h, b, depth, currentPlayer, maximizingPlayer) ==
  IF depth = 0 \/ isGameOver(h, b)
  THEN [score |-> evaluate(h, b, maximizingPlayer), heap |-> h]
  ELSE LET moves == getValidMoves(h, b, currentPlayer)
       IN  IF Len(moves) = 0
           THEN [score |-> evaluate(h, b, maximizingPlayer), heap |-> h]
           ELSE IF currentPlayer = maximizingPlayer
           THEN MaxLoop(h, b, depth, currentPlayer, maximizingPlayer, moves, 1, Infinite)
           ELSE MinLoop(h, b, depth, currentPlayer, maximizingPlayer, moves, 1, Infinite)

minimax(h, b, depth, currentPlayer, maximizingPlayer) ==
  IF depth = 0 \/ isGameOver(h, b)
  THEN [score |-> evaluate(h, b, maximizingPlayer), heap |-> h]
  ELSE LET moves == getValidMoves(h, b, currentPlayer)
       IN  IF Len(moves) = 0
           THEN minimax(h, b, depth - 1, -currentPlayer, maximizingPlayer)
           ELSE IF currentPlayer = maximizingPlayer
           THEN MaxLoop(h, b, depth, currentPlayer, maximizingPlayer, moves, 1, Infinite)
           ELSE MinLoop(h, b, depth, currentPlayer, maximizingPlayer, moves, 1, Infinite)

\* MinimaxChoiceLoop replacing the best move on an equal score too.
RECURSIVE MinimaxChoiceLoopLastWins(_, _, _, _, _, _, _, _)
MinimaxChoiceLoopLastWins(h, b, maxDepth, player, moves, i, bestMove, bestScore) ==
  IF i > Len(moves) THEN [move |-> bestMove, heap |-> h]
  ELSE LET tmp == clone(h, b)
           a   == applyMove(tmp.heap, tmp.obj, moves[i][1], moves[i][2], player)
           e   == minimax(a.heap, a.obj, maxDepth - 1, -player, player)
           h2  == Release(h, e.heap)
       IN  IF bestScore = Infinite \/ e.score >= bestScore[1]
           THEN MinimaxChoiceLoopLastWins(h2, b, maxDepth, player, moves, i + 1,
                                          moves[i], <<e.score>>)
           ELSE MinimaxChoiceLoopLastWins(h2, b, maxDepth, player, moves, i + 1,
                                          bestMove, bestScore)

\* The loop of chooseMinimax from move i on.
RECURSIVE MinimaxChoiceLoop(_, _, _, _, _, _, _, _)
MinimaxChoiceLoop(h, b, maxDepth, player, moves, i, bestMove, bestScore) ==
  IF i > Len(moves) THEN [move |-> bestMove, heap |-> h]
  ELSE LET tmp == clone(h, b)
           a   == applyMove(tmp.heap, tmp.obj, moves[i][1], moves[i][2], player)
           e   == minimax(a.heap, a.obj, maxDepth - 1, -player, player)
           h2  == Release(h, e.heap)
       IN  IF Above(e.score, bestScore)
           THEN MinimaxChoiceLoop(h2, b, maxDepth, player, moves, i + 1,
                                  moves[i], <<e.score>>)
           ELSE MinimaxChoiceLoop(h2, b, maxDepth, player, moves, i + 1,
                                  bestMove, bestScore)

chooseMinimax(h, b, maxDepth, player, moves) ==
  MinimaxChoiceLoop(h, b, maxDepth, player, moves, 1, moves[1], Infinite)

\* getBestMove of a ReversiAI(strategy, maxDepth); idx is the index
\* chooseRandom draws.  The move (or Null), and the heap the call leaves.
getBestMove(h, b, strategy, maxDepth, player, idx) ==
  LET moves == getValidMoves(h, b, player)
  IN  IF Len(moves) = 0 THEN [move |-> Null, heap |-> h]
      ELSE IF strategy = "random"
      THEN [move |-> chooseRandom(moves, idx), heap |-> h]
      ELSE IF strategy = "greedy" THEN chooseGreedy(h, b, player, moves)
      ELSE IF strategy = "minimax" THEN chooseMinimax(h, b, maxDepth, player, moves)
      ELSE [move |-> chooseRandom(moves, idx), heap |-> h]

\* ----------------------------------------------------------- the game loop
\* The page's handlers as functions of the heap and the live board.  `did` is
\* what the handler did: "ignored" (an early return), "moved" or "passed".
\* renderBoard() and updateStatus() read the board and write the page only.

\* humanClick(x, y); `timer` is the number of setTimeout(aiTurn, 300) it made.
humanClick(h, b, x, y) ==
  IF b.currentPlayer # humanPlayer
  THEN [did |-> "ignored", heap |-> h, obj |-> b, timer |-> 0]
  ELSE IF ~isValidMove(h, b, x, y, humanPlayer)
  THEN [did |-> "ignored", heap |-> h, obj |-> b, timer |-> 0]
  ELSE LET a == applyMove(h, b, x, y, humanPlayer)
       IN  [did |-> "moved", heap |-> a.heap, obj |-> a.obj,
            timer |-> IF isGameOver(a.heap, a.obj) THEN 0 ELSE 1]

\* aiTurn whose pass leaves the turn with the AI.
aiTurnPassKeepsTurn(h, b) ==
  IF b.currentPlayer # aiPlayer
  THEN [did |-> "ignored", heap |-> h, obj |-> b, move |-> Null]
  ELSE IF isGameOver(h, b)
  THEN [did |-> "ignored", heap |-> h, obj |-> b, move |-> Null]
  ELSE LET m == getBestMove(h, b, AiStrategy, AiDepth, aiPlayer, 0)
       IN  IF m.move # Null
           THEN LET a == applyMove(m.heap, b, m.move[1], m.move[2], aiPlayer)
                IN  [did |-> "moved", heap |-> a.heap, obj |-> a.obj,
                     move |-> m.move]
           ELSE [did |-> "passed", heap |-> m.heap, obj |-> b, move |-> Null]

\* aiTurn without its test of currentPlayer.
aiTurnUnguarded(h, b) ==
  IF isGameOver(h, b)
  THEN [did |-> "ignored", heap |-> h, obj |-> b, move |-> Null]
  ELSE LET m == getBestMove(h, b, AiStrategy, AiDepth, aiPlayer, 0)
       IN  IF m.move # Null
           THEN LET a == applyMove(m.heap, b, m.move[1], m.move[2], aiPlayer)
                IN  [did |-> "moved", heap |-> a.heap, obj |-> a.obj,
                     move |-> m.move]
           ELSE [did |-> "passed", heap |-> m.heap, obj |-> switchPlayer(b),
                 move |-> Null]

\* aiTurn(); `move` is the move getBestMove gave, or Null.
aiTurn(h, b) ==
  IF b.currentPlayer # aiPlayer
  THEN [did |-> "ignored", heap |-> h, obj |-> b, move |-> Null]
  ELSE IF isGameOver(h, b)
  THEN [did |-> "ignored", heap |-> h, obj |-> b, move |-> Null]
  ELSE LET m == getBestMove(h, b, AiStrategy, AiDepth, aiPlayer, 0)
       IN  IF m.move # Null
           THEN LET a == applyMove(m.heap, b, m.move[1], m.move[2], aiPlayer)
                IN  [did |-> "moved", heap |-> a.heap, obj |-> a.obj,
                     move |-> m.move]
           ELSE [did |-> "passed", heap |-> m.heap, obj |-> switchPlayer(b),
                 move |-> Null]

\* --------------------------------------------------------------- the state
VARIABLES
  heap,   \* the row arrays allocated so far; a row reference is an index
  board,  \* the live ReversiBoard: [size, board (row references), currentPlayer]
  copy,   \* a ReversiBoard obtained from board.clone(), or NoBoard
  op,     \* the last call made: see NoCall
  ret,    \* what that call did: [threw, value]
  timers  \* the number of setTimeout(aiTurn, 300) callbacks not yet run

vars == <<heap, board, copy, op, ret, timers>>

Returned(v) == [threw |-> FALSE, value |-> v]
Thrown(e)   == [threw |-> TRUE, value |-> e]

NoBoard == [size |-> 0, board |-> << >>, currentPlayer |-> 0]

\* What op records of a call: its name, its player argument (0 when it has
\* none), whether its coordinates lay on the board, the cell where it placed a
\* stone (<< >> when it placed none), and the strategy and maxDepth of the
\* ReversiAI it was made on ("" and 0 for a call on a board), and the size
\* given to a constructor (0 for any other call).
NoCall ==
  [name |-> "", player |-> 0, inside |-> TRUE, move |-> << >>,
   strategy |-> "", maxDepth |-> 0, size |-> 0]

\* new ReversiBoard(n) for even n >= 2: n fresh rows, then init().
Construct(h, n) ==
  [heap |-> h \o InitGrid(n),
   obj  |-> [size |-> n,
             board |-> [r \in 1 .. n |-> Len(h) + r],
             currentPlayer |-> 1]]

\* init() for a size n that is odd or below 2: mid - 1 or mid is no row index,
\* this.board[...] is undefined and the assignment into it throws a TypeError.
\* (Array.from gives an empty array for a negative length.)
ConstructThrows(n) == n % 2 # 0 \/ n < 2

\* Accepted moves made on object b so far (each places exactly one stone).
Placed(h, b) ==
  LET c == countStones(h, b) IN c.black + c.white - 4

Init ==
  LET c == Construct(<< >>, Size)
  IN  /\ heap = c.heap
      /\ board = c.obj
      /\ copy = NoBoard
      /\ op = [NoCall EXCEPT !.name = "new", !.size = Size]
      /\ ret = Returned(TRUE)
      /\ timers = 0

\* b.applyMove(x, y, player) on the board object b: what it leaves in op, ret
\* and heap, and the object after it.
ApplyMoveOn(b, x, y, player, after) ==
  IF RowMissing(b, y)
  THEN /\ op' = [NoCall EXCEPT !.name = "applyMove", !.player = player,
                               !.inside = FALSE]
       /\ ret' = Thrown("TypeError")
       /\ heap' = heap
       /\ after = b
  ELSE LET r == applyMove(heap, b, x, y, player)
       IN  /\ op' = [NoCall EXCEPT !.name = "applyMove", !.player = player,
                                   !.inside = inBounds(b, x, y),
                                   !.move = IF r.ret THEN <<x, y>> ELSE << >>]
           /\ ret' = Returned(r.ret)
           /\ heap' = r.heap
           /\ after = r.obj

\* board.applyMove(x, y, player)
ApplyMoveCall(x, y, player) ==
  /\ ApplyMoveOn(board, x, y, player, board')
  /\ UNCHANGED <<copy, timers>>

\* copy.applyMove(x, y, player)
ApplyMoveCopyCall(x, y, player) ==
  /\ copy # NoBoard
  /\ ApplyMoveOn(copy, x, y, player, copy')
  /\ UNCHANGED <<board, timers>>

\* copy = board.clone(); the rows of a clone that copy held before are
\* unreachable from then on.
CloneCall ==
  LET c == clone(SubSeq(heap, 1, board.size), board)
  IN  /\ op' = [NoCall EXCEPT !.name = "clone"]
      /\ ret' = Returned(TRUE)
      /\ heap' = c.heap
      /\ copy' = c.obj
      /\ UNCHANGED <<board, timers>>

\* board.isValidMove(x, y, player)
IsValidMoveCall(x, y, player) ==
  /\ op' = [NoCall EXCEPT !.name = "isValidMove", !.player = player,
                          !.inside = inBounds(board, x, y)]
  /\ ret' = IF RowMissing(board, y)
            THEN Thrown("TypeError")
            ELSE Returned(isValidMove(heap, board, x, y, player))
  /\ UNCHANGED <<heap, board, copy, timers>>

\* board.getValidMoves(player)
GetValidMovesCall(player) ==
  /\ op' = [NoCall EXCEPT !.name = "getValidMoves", !.player = player]
  /\ ret' = Returned(getValidMoves(heap, board, player))
  /\ UNCHANGED <<heap, board, copy, timers>>

\* board.isGameOver()
IsGameOverCall ==
  /\ op' = [NoCall EXCEPT !.name = "isGameOver"]
  /\ ret' = Returned(isGameOver(heap, board))
  /\ UNCHANGED <<heap, board, copy, timers>>

\* board = new ReversiBoard(n).  When the constructor throws, the assignment
\* is not made; when it returns, the rows of the board held before (and of a
\* clone of it) are unreachable and dropped from the heap.
NewBoardCall(n) ==
  /\ op' = [NoCall EXCEPT !.name = "new", !.size = n]
  /\ UNCHANGED timers
  /\ IF ConstructThrows(n)
     THEN /\ ret' = Thrown("TypeError")
          /\ UNCHANGED <<heap, board, copy>>
     ELSE LET c == Construct(<< >>, n)
          IN  /\ ret' = Returned(TRUE)
              /\ heap' = c.heap
              /\ board' = c.obj
              /\ copy' = NoBoard

\* The values Math.floor(Math.random() * moves.length) can take in a call of
\* the given strategy (0 stands for a draw that is never made).
RandomIndices(strategy, moves) ==
  IF strategy = "random" /\ Len(moves) > 0 THEN 0 .. Len(moves) - 1 ELSE {0}

\* new ReversiAI(strategy, maxDepth).getBestMove(board, player).  The call
\* assigns no field of board; what it does to the rows of board is in the heap
\* it leaves.
GetBestMoveCall(strategy, maxDepth, player) ==
  /\ \E idx \in RandomIndices(strategy, getValidMoves(heap, board, player)) :
       LET r == getBestMove(heap, board, strategy, maxDepth, player, idx)
       IN  /\ op' = [NoCall EXCEPT !.name = "getBestMove", !.player = player,
                                   !.strategy = strategy, !.maxDepth = maxDepth]
           /\ ret' = Returned(r.move)
           /\ heap' = r.heap
  /\ UNCHANGED <<board, copy, timers>>

\* The maxDepth values tried for a strategy; chooseMinimax alone reads it.
Depths(strategy) == IF strategy = "minimax" THEN 1 .. MaxDepth ELSE {MaxDepth}

\* The model explores boards of up to MaxMoves accepted moves.
CanPlace == Placed(heap, board) < MaxMoves

\* The board: its rules and its queries.
Next ==
  \/ /\ CanPlace
     /\ \E x \in Coords, y \in Coords, player \in Players : ApplyMoveCall(x, y, player)
  \/ \E x \in Coords, y \in Coords, player \in Players : IsValidMoveCall(x, y, player)
  \/ \E player \in Players : GetValidMovesCall(player)
  \/ IsGameOverCall

Spec == Init /\ [][Next]_vars

\* The AI asked for a move on boards of up to MaxSearchedMoves accepted moves.
CanPlaceSearched == Placed(heap, board) < MaxSearchedMoves

NextAI ==
  \/ /\ CanPlaceSearched
     /\ \E x \in Coords, y \in Coords, player \in Players : ApplyMoveCall(x, y, player)
  \/ \E strategy \in Strategies, player \in Players :
       \E maxDepth \in Depths(strategy) : GetBestMoveCall(strategy, maxDepth, player)

SpecAI == Init /\ [][NextAI]_vars

\* A board and its clone, with up to MaxClonedMoves accepted moves on the two
\* together.
CanPlaceCloned ==
  Placed(heap, board) + (IF copy = NoBoard THEN 0 ELSE Placed(heap, copy))
    < MaxClonedMoves

NextClone ==
  \/ /\ CanPlaceCloned
     /\ \E x \in Coords, y \in Coords, player \in Players : ApplyMoveCall(x, y, player)
  \/ /\ CanPlaceCloned
     /\ \E x \in Coords, y \in Coords, player \in Players : ApplyMoveCopyCall(x, y, player)
  \/ CloneCall

SpecClone == Init /\ [][NextClone]_vars

\* Boards of every size from 0 to one past the page's, each taken through its
\* first moves.
NewSizes == 0 .. GameSize + 1

CanPlaceNew == Placed(heap, board) < MaxNewMoves

NextNew ==
  \/ \E n \in NewSizes : NewBoardCall(n)
  \/ /\ CanPlaceNew
     /\ \E x \in -1 .. board.size, y \in -1 .. board.size, player \in Players :
          ApplyMoveCall(x, y, player)
  \/ \E player \in Players : GetValidMovesCall(player)

SpecNew == Init /\ [][NextNew]_vars

\* A click on the cell (x, y) of the rendered board.
CellClick(x, y) ==
  \E r \in {humanClick(heap, board, x, y)} :
      /\ op' = [NoCall EXCEPT !.name = "humanClick", !.player = humanPlayer,
                              !.move = IF r.did = "moved" THEN <<x, y>> ELSE << >>]
      /\ ret' = Returned(r.did)
      /\ heap' = r.heap
      /\ board' = r.obj
      /\ timers' = timers + r.timer
      /\ UNCHANGED copy

\* A pending timer runs aiTurn (once: r is its one outcome).
TimerFires ==
  /\ timers > 0
  /\ \E r \in {aiTurn(heap, board)} :
         /\ op' = [NoCall EXCEPT !.name = "aiTurn", !.player = aiPlayer,
                                 !.move = r.move]
         /\ ret' = Returned(r.did)
         /\ heap' = r.heap
         /\ board' = r.obj
         /\ timers' = timers - 1
         /\ UNCHANGED copy

\* A click on the reset button: a new board, the human to move; the timers
\* already set stay pending.  The game is played on a board of side Size.
ResetClick ==
  LET c == Construct(<< >>, Size)
  IN  /\ op' = [NoCall EXCEPT !.name = "reset", !.size = Size]
      /\ ret' = Returned("reset")
      /\ heap' = c.heap
      /\ board' = [c.obj EXCEPT !.currentPlayer = humanPlayer]
      /\ copy' = NoBoard
      /\ UNCHANGED timers

\* The page: clicks on cells, timers running aiTurn and resets, in any order,
\* with up to MaxTimers timers pending.
NextGame ==
  \/ /\ timers < MaxTimers
     /\ \E x \in 0 .. board.size - 1, y \in 0 .. board.size - 1 : CellClick(x, y)
  \/ TimerFires
  \/ ResetClick

SpecGame == Init /\ [][NextGame]_vars

\* The greedy choice and the minimax choice of depth 1, asked of either player
\* on boards played in turn from the start, on the explored side and on the
\* next even side (where the corners are out of reach of the first moves).
ChoiceSize == Size + 2

CanPlaceChoice == Placed(heap, board) < MaxChoiceMoves

NextChoice ==
  \/ NewBoardCall(ChoiceSize)
  \/ /\ CanPlaceChoice
     /\ \E x \in 0 .. board.size - 1, y \in 0 .. board.size - 1 :
          ApplyMoveCall(x, y, board.currentPlayer)
  \/ \E player \in Players : GetBestMoveCall("greedy", MaxDepth, player)
  \/ \E player \in Players : GetBestMoveCall("minimax", 1, player)

SpecChoice == Init /\ [][NextChoice]_vars

\* --------------------------------------------------------------- the rules
\* The definitions below state Reversi's rules on a plain grid value, without
\* the loops of the code; the claims compare the code's operators with them.

\* The grid of object b as a value: Grid[y][x], zero-based.
Grid(h, b) ==
  [y \in 0 .. b.size - 1 |-> [x \in 0 .. b.size - 1 |-> At(h, b, x, y)]]

OnGrid(n, x, y) == x \in 0 .. n - 1 /\ y \in 0 .. n - 1

Compass == {d \in {-1, 0, 1} \X {-1, 0, 1} : d # <<0, 0>>}

\* In direction d from (x, y): exactly k >= 1 opponent stones, starting with
\* the adjacent cell, and right after them a stone of player p on the grid.
Brackets(g, n, x, y, d, p, k) ==
  /\ k >= 1
  /\ \A j \in 1 .. k :
       /\ OnGrid(n, x + j * d[1], y + j * d[2])
       /\ g[y + j * d[2]][x + j * d[1]] = -p
  /\ OnGrid(n, x + (k + 1) * d[1], y + (k + 1) * d[2])
  /\ g[y + (k + 1) * d[2]][x + (k + 1) * d[1]] = p

Legal(g, n, x, y, p) ==
  /\ g[y][x] = 0
  /\ \E d \in Compass, k \in 1 .. n : Brackets(g, n, x, y, d, p, k)

\* The cells a legal move of p at (x, y) turns over.
Flipped(g, n, x, y, p) ==
  UNION {{<<x + j * d[1], y + j * d[2]>> : j \in 1 .. k} :
           <<d, k>> \in {e \in Compass \X (1 .. n) :
                           Brackets(g, n, x, y, e[1], p, e[2])}}

\* The grid after a legal move of p at (x, y).
GridAfter(g, n, x, y, p) ==
  LET f == Flipped(g, n, x, y, p)
  IN  [cy \in 0 .. n - 1 |->
        [cx \in 0 .. n - 1 |->
          IF <<cx, cy>> = <<x, y>> \/ <<cx, cy>> \in f THEN p ELSE g[cy][cx]]]

\* Number of cells of grid g holding v.
Count(g, n, v) ==
  Cardinality({c \in (0 .. n - 1) \X (0 .. n - 1) : g[c[2]][c[1]] = v})

NoLegalMove(g, n, p) ==
  \A x \in 0 .. n - 1, y \in 0 .. n - 1 : ~Legal(g, n, x, y, p)

Cells == (0 .. Size - 1) \X (0 .. Size - 1)

\* The corner term of the evaluator for player p: 5 for each corner p holds,
\* -5 for each corner the opponent holds.
CornerTerm(g, n, p) ==
  LET worth(v) == IF v = p THEN 5 ELSE IF v = -p THEN -5 ELSE 0
  IN  worth(g[0][0]) + worth(g[n - 1][0]) + worth(g[0][n - 1])
        + worth(g[n - 1][n - 1])

\* The stone differential of p, and the evaluator's score for p.
Differential(g, n, p) == Count(g, n, p) - Count(g, n, -p)

Score(g, n, p) == Differential(g, n, p) + CornerTerm(g, n, p)

LegalMoves(g, n, p) ==
  {c \in (0 .. n - 1) \X (0 .. n - 1) : Legal(g, n, c[1], c[2], p)}

Largest(S) == CHOOSE v \in S : \A w \in S : w <= v
Smallest(S) == CHOOSE v \in S : \A w \in S : v <= w

\* The minimax value of grid g for mx, searched d plies deep with mv to move:
\* the score at depth 0 or when neither side can move, the value one ply less
\* deep with the other side to move when mv alone cannot move, and otherwise
\* the largest (mv = mx) or smallest of the values of all of mv's moves.
RECURSIVE Value(_, _, _, _, _)
Value(g, n, d, mv, mx) ==
  IF d = 0 \/ (NoLegalMove(g, n, 1) /\ NoLegalMove(g, n, -1))
  THEN Score(g, n, mx)
  ELSE LET ms == LegalMoves(g, n, mv)
       IN  IF ms = {} THEN Value(g, n, d - 1, -mv, mx)
           ELSE LET vals == {Value(GridAfter(g, n, c[1], c[2], mv), n, d - 1, -mv, mx) :
                               c \in ms}
                IN  IF mv = mx THEN Largest(vals) ELSE Smallest(vals)

\* The start of the game on an n x n grid: two stones of one player on one
\* diagonal of the central 2 x 2 block, two of the other player on the other
\* diagonal, every other cell empty.
FourCentre(g, n) ==
  LET m == n \div 2
  IN  /\ g[m - 1][m - 1] \in Players
      /\ \A x \in 0 .. n - 1, y \in 0 .. n - 1 :
           g[y][x] = IF <<x, y>> \in {<<m - 1, m - 1>>, <<m, m>>}
                     THEN g[m - 1][m - 1]
                     ELSE IF <<x, y>> \in {<<m - 1, m>>, <<m, m - 1>>}
                     THEN -g[m - 1][m - 1]
                     ELSE 0

\* ------------------------------------------------------------- the claims
TheGrid == Grid(heap, board)

Accepted == op.name = "applyMove" /\ ~ret.threw /\ ret.value = TRUE
Rejected == op.name = "applyMove" /\ ~ret.threw /\ ret.value = FALSE

\* C1: on every reachable board, for every cell of the board and either
\* player, if the move is not legal for that player then applyMove returns
\* false and leaves every grid cell and currentPlayer as they were.
C1_IllegalMoveRejected ==
  LET g == TheGrid IN
  \A c \in Cells, p \in Players :
    ~Legal(g, board.size, c[1], c[2], p) =>
      LET r == applyMove(heap, board, c[1], c[2], p)
      IN  /\ r.ret = FALSE
          /\ Grid(r.heap, r.obj) = g
          /\ r.obj.currentPlayer = board.currentPlayer

\* An applyMove on a cell of the board has just been rejected.
C1_Witness == Rejected /\ op.inside

\* C2: after every accepted applyMove(x, y, player), whatever currentPlayer
\* was before, currentPlayer is the opponent of player.
C2_TurnGoesToOpponentOfMover ==
  Accepted => board.currentPlayer = -op.player

\* C3: for coordinates outside the board, on either axis, isValidMove returns
\* false without raising an error, and applyMove returns false.
C3_OutOfBoundsReturnsFalse ==
  (op.name \in {"isValidMove", "applyMove"} /\ ~op.inside) =>
    (~ret.threw /\ ret.value = FALSE)

\* C4: for every cell of the board and either player, isValidMove is true
\* exactly when the cell is empty and some direction holds, from the adjacent
\* cell on, one or more opponent stones followed at once by a stone of the
\* player; a direction whose adjacent cell is no opponent stone never counts.
C4_ValidIffBrackets ==
  LET g == TheGrid IN
  \A c \in Cells, p \in Players :
    isValidMove(heap, board, c[1], c[2], p)
      <=> Legal(g, board.size, c[1], c[2], p)

\* isValidMove has just returned false for a player who has, next to some
\* empty cell, a stone of his own with no opponent stone in between, and for
\* whom that cell is not a legal move.
C4_Witness ==
  LET g == TheGrid IN
  /\ op.name = "isValidMove" /\ op.inside /\ ~ret.threw /\ ret.value = FALSE
  /\ \E c \in Cells, d \in Compass :
       /\ g[c[2]][c[1]] = 0
       /\ OnGrid(board.size, c[1] + d[1], c[2] + d[2])
       /\ g[c[2] + d[2]][c[1] + d[1]] = op.player
       /\ ~isValidMove(heap, board, c[1], c[2], op.player)

\* C5: an accepted applyMove(x, y, player) changes the grid in exactly these
\* cells: (x, y) holds player, and so does every cell of each opponent run that
\* starts next to (x, y) and is ended by a stone of player on the grid before
\* the move; runs ended by the edge or an empty cell and all other cells keep
\* their value.
C5_FlipsExactlyBracketedRuns ==
  LET g == TheGrid IN
  \A c \in Cells, p \in Players :
    Legal(g, board.size, c[1], c[2], p) =>
      LET r == applyMove(heap, board, c[1], c[2], p)
      IN  /\ r.ret = TRUE
          /\ Grid(r.heap, r.obj) = GridAfter(g, board.size, c[1], c[2], p)

\* A move has just been accepted that left an opponent stone next to the
\* placed stone: a run the move did not bracket.
C5_Witness ==
  LET g == TheGrid IN
  /\ Accepted
  /\ \E d \in Compass :
       /\ OnGrid(board.size, op.move[1] + d[1], op.move[2] + d[2])
       /\ g[op.move[2] + d[2]][op.move[1] + d[1]] = -op.player

\* C6: an accepted applyMove adds exactly one stone to the board, raises the
\* mover's count by one plus the number of flipped stones (at least 2 in all),
\* lowers the opponent's count by the number of flipped stones, and empties no
\* occupied cell.
C6_StoneCounts ==
  LET g == TheGrid IN
  \A c \in Cells, p \in Players :
    isValidMove(heap, board, c[1], c[2], p) =>
      LET r      == applyMove(heap, board, c[1], c[2], p)
          before == countStones(heap, board)
          after  == countStones(r.heap, r.obj)
          mine(s)   == IF p = 1 THEN s.black ELSE s.white
          theirs(s) == IF p = 1 THEN s.white ELSE s.black
          flips  == Cardinality(Flipped(g, board.size, c[1], c[2], p))
      IN  /\ after.black + after.white = before.black + before.white + 1
          /\ mine(after) = mine(before) + 1 + flips
          /\ mine(after) >= mine(before) + 2
          /\ theirs(after) = theirs(before) - flips
          /\ \A e \in Cells :
               g[e[2]][e[1]] # 0 => Grid(r.heap, r.obj)[e[2]][e[1]] # 0

\* A move has just been accepted and the mover holds at least three stones
\* more than the four-stone start gives him.
C6_Witness ==
  /\ Accepted
  /\ Count(TheGrid, board.size, op.player) >= 5

\* C7: isGameOver() is true exactly when getValidMoves(1) and
\* getValidMoves(-1) are both empty, that is when neither player has a legal
\* move; a board where one side has none and the other has one is not over.
C7_GameOverIffNoMoves ==
  LET g == TheGrid IN
  /\ isGameOver(heap, board)
       <=> (NoLegalMove(g, board.size, 1) /\ NoLegalMove(g, board.size, -1))
  /\ op.name = "isGameOver" =>
       ret = Returned(Len(getValidMoves(heap, board, 1)) = 0
                      /\ Len(getValidMoves(heap, board, -1)) = 0)

\* isGameOver has just returned false on a board where one side has no legal
\* move and the other has one.
C7_Witness ==
  LET g == TheGrid IN
  /\ op.name = "isGameOver" /\ ~ret.threw /\ ret.value = FALSE
  /\ \E p \in Players :
       /\ NoLegalMove(g, board.size, p)
       /\ ~NoLegalMove(g, board.size, -p)

\* C8: for each strategy, every reachable board and either player, getBestMove
\* returns null exactly when getValidMoves(player) is empty, raises no error,
\* and otherwise returns a member of getValidMoves(player), which applyMove
\* accepts for that player.
C8_NullIffNoMoves ==
  op.name = "getBestMove" =>
    LET g     == TheGrid
        moves == getValidMoves(heap, board, op.player)
    IN  /\ ~ret.threw
        /\ (ret.value = Null) <=> (Len(moves) = 0)
        /\ (Len(moves) = 0) <=> NoLegalMove(g, board.size, op.player)
        /\ ret.value # Null =>
             /\ \E i \in 1 .. Len(moves) : moves[i] = ret.value
             /\ Legal(g, board.size, ret.value[1], ret.value[2], op.player)
             /\ applyMove(heap, board, ret.value[1], ret.value[2], op.player).ret

\* getBestMove has just returned null to a player without a legal move.
C8_Witness ==
  /\ op.name = "getBestMove" /\ ret.value = Null
  /\ Len(getValidMoves(heap, board, op.player)) = 0

\* C9: getBestMove leaves the board it is given unchanged, for every strategy
\* and every maxDepth >= 1: every grid cell and currentPlayer are after the
\* call what they were before it.
C9_SearchLeavesBoard ==
  [][op'.name = "getBestMove" =>
       /\ Grid(heap', board') = Grid(heap, board)
       /\ board'.currentPlayer = board.currentPlayer
       /\ board'.size = board.size]_vars

\* A minimax search of depth 2 or more has just returned a move, on a board
\* where one of the player's moves leaves the opponent without a move and the
\* game not over: the search went through a forced pass.
C9_Witness ==
  /\ op.name = "getBestMove" /\ op.strategy = "minimax" /\ op.maxDepth >= 2
  /\ ret.value # Null
  /\ \E c \in Cells :
       LET a == applyMove(heap, board, c[1], c[2], op.player)
       IN  /\ a.ret
           /\ Len(getValidMoves(a.heap, a.obj, -op.player)) = 0
           /\ ~isGameOver(a.heap, a.obj)

\* C10: clone() yields a board with the size, grid and currentPlayer of the
\* original; the same applyMove made on the original and then on the clone,
\* the two holding the same grid and turn, returns the same value and leaves
\* them with the same grid and turn; and an applyMove on one of the two leaves
\* the grid of the other as it was.
C10_CloneIndependent ==
  copy # NoBoard =>
    LET gb   == Grid(heap, board)
        gc   == Grid(heap, copy)
        same == gc = gb /\ copy.currentPlayer = board.currentPlayer
    IN  /\ op.name = "clone" => (same /\ copy.size = board.size)
        /\ \A c \in Cells, p \in Players :
             LET r1 == applyMove(heap, board, c[1], c[2], p)
                 r2 == applyMove(heap, copy, c[1], c[2], p)
                 r3 == applyMove(r1.heap, copy, c[1], c[2], p)
             IN  /\ Grid(r1.heap, copy) = gc
                 /\ Grid(r2.heap, board) = gb
                 /\ same =>
                      /\ r3.ret = r1.ret
                      /\ Grid(r3.heap, r3.obj) = Grid(r3.heap, r1.obj)
                      /\ r3.obj.currentPlayer = r1.obj.currentPlayer

\* A move has just been accepted on one of a board and its clone, and the two
\* grids differ.
C10_Witness ==
  /\ copy # NoBoard
  /\ Accepted
  /\ Grid(heap, board) # Grid(heap, copy)

Constructed == op.name = "new" /\ ~ret.threw

\* C11: a board just constructed with size 8 has exactly 4 stones, 2 of each
\* player, (3,3) and (4,4) holding one player and (3,4) and (4,3) the other,
\* every other cell empty, and getValidMoves(currentPlayer) has exactly 4
\* entries.
C11_StartOfSizeEight ==
  (op.name = "new" /\ op.size = GameSize) =>
    LET g == TheGrid
    IN  /\ ~ret.threw
        /\ board.size = GameSize
        /\ Count(g, GameSize, 1) = 2 /\ Count(g, GameSize, -1) = 2
        /\ g[3][3] \in Players /\ g[4][4] = g[3][3]
        /\ g[4][3] = -g[3][3] /\ g[3][4] = -g[3][3]
        /\ \A x \in 0 .. GameSize - 1, y \in 0 .. GameSize - 1 :
             <<x, y>> \notin {<<3, 3>>, <<4, 4>>, <<3, 4>>, <<4, 3>>}
               => g[y][x] = 0
        /\ Len(getValidMoves(heap, board, board.currentPlayer)) = 4

\* new ReversiBoard(8) has just returned.
C11_Witness == Constructed /\ op.size = GameSize /\ board.size = GameSize

\* C12: for every integer size >= 2, even or odd, new ReversiBoard(size)
\* completes without error and yields a size x size grid whose only stones are
\* the four centre stones, two of each player on the two diagonals.
C12_EverySizeConstructs ==
  (op.name = "new" /\ op.size >= 2) =>
    /\ ~ret.threw
    /\ board.size = op.size
    /\ FourCentre(TheGrid, op.size)

\* C13: for every board and either player, evaluate(board, player) is the
\* player's stone count minus the opponent's plus, over the four corners, 5
\* for a corner the player holds, -5 for one the opponent holds and 0 for an
\* empty one; and evaluate(board, player) = -evaluate(board, -player).
C13_EvaluateIsDifferentialPlusCorners ==
  LET g == TheGrid IN
  \A p \in Players :
    /\ evaluate(heap, board, p) = Score(g, board.size, p)
    /\ evaluate(heap, board, p) = -evaluate(heap, board, -p)

\* A minimax search has just returned on a board where some corner is held and
\* the corner term differs from zero.
C13_Witness ==
  /\ op.name = "getBestMove" /\ op.strategy = "minimax" /\ ret.value # Null
  /\ CornerTerm(TheGrid, board.size, op.player) # 0

\* The boards a minimax search that has just returned called minimax on: the
\* successors of the board by the legal moves of the player asked about.
SearchedNodes ==
  IF op.name = "getBestMove" /\ op.strategy = "minimax"
  THEN {applyMove(heap, board, c[1], c[2], op.player) :
          c \in {e \in Cells : isValidMove(heap, board, e[1], e[2], op.player)}}
  ELSE {}

\* C14: minimax(board, depth, mover, maximizer) is the minimax value: at depth
\* 0 or on a board that is game over it is evaluate(board, maximizer) whoever
\* the mover is; otherwise, when the mover has legal moves, it is the maximum
\* (mover = maximizer) or the minimum (mover # maximizer) over all the
\* mover's legal moves of minimax(successor, depth - 1, -mover, maximizer).
\* Checked on every board a search evaluated, for either mover and every
\* depth below the search's maxDepth.
C14_MinimaxIsReferenceValue ==
  \A a \in SearchedNodes, mv \in Players, d \in 0 .. op.maxDepth - 1 :
    LET g == Grid(a.heap, a.obj)
        v == minimax(a.heap, a.obj, d, mv, op.player).score
    IN  /\ v = Value(g, a.obj.size, d, mv, op.player)
        /\ d = 0 => v = evaluate(a.heap, a.obj, op.player)

\* A minimax search of depth 2 has just returned on a board with two
\* successors at least, one of them with two replies that differ in score: a
\* node where it matters which child's value is kept.
C14_Witness ==
  /\ op.name = "getBestMove" /\ op.strategy = "minimax" /\ op.maxDepth >= 2
  /\ Cardinality(SearchedNodes) >= 2
  /\ \E a \in SearchedNodes :
       LET g == Grid(a.heap, a.obj)
       IN  \E c \in LegalMoves(g, a.obj.size, -op.player),
              e \in LegalMoves(g, a.obj.size, -op.player) :
             Score(GridAfter(g, a.obj.size, c[1], c[2], -op.player),
                   a.obj.size, op.player)
               # Score(GridAfter(g, a.obj.size, e[1], e[2], -op.player),
                       a.obj.size, op.player)

\* The corner term is zero on every board one legal move of p leads to.
NoCornerInReach(g, n, p) ==
  \A c \in LegalMoves(g, n, p) :
    CornerTerm(GridAfter(g, n, c[1], c[2], p), n, p) = 0

\* C15: for every board and player with a legal move, if the corner term is
\* zero on every successor by one legal move of the player, then getBestMove
\* with strategy minimax and maxDepth 1 returns the move getBestMove with
\* strategy greedy returns.  Checked on every greedy call made, against the
\* minimax call on the same board.
C15_DepthOneMinimaxIsGreedy ==
  (op.name = "getBestMove" /\ op.strategy = "greedy" /\ ret.value # Null) =>
    (NoCornerInReach(TheGrid, board.size, op.player) =>
       getBestMove(heap, board, "minimax", 1, op.player, 0).move = ret.value)

\* A greedy call has just returned on a board with no corner in reach, where
\* the player's moves do not all score the same and two of them share the
\* best score.
C15_Witness ==
  LET g  == TheGrid
      n  == board.size
      ms == LegalMoves(g, n, op.player)
      sc == [c \in ms |-> Differential(GridAfter(g, n, c[1], c[2], op.player),
                                       n, op.player)]
  IN  /\ op.name = "getBestMove" /\ op.strategy = "greedy" /\ ret.value # Null
      /\ NoCornerInReach(g, n, op.player)
      /\ \E c \in ms, e \in ms : sc[c] < sc[e]
      /\ \E c \in ms, e \in ms : c # e /\ sc[c] = sc[e] /\ \A f \in ms : sc[f] <= sc[c]

\* The place of cell c in the row-major scan of an n x n board (y outer, x
\* inner).
ScanOrder(n, c) == c[2] * n + c[1]

\* C16: greedy and minimax return the first move, in the row-major order of
\* getValidMoves, whose score is maximal among all legal moves (a later move
\* replaces the best only on a strictly higher score); the score of a move is,
\* for greedy, the stone differential of the player on the board after the
\* move, with no corner bonus, and for minimax,
\* minimax(successor, maxDepth - 1, -player, player).
C16_FirstBestInScanOrder ==
  (op.name = "getBestMove" /\ op.strategy \in {"greedy", "minimax"}
     /\ ret.value # Null) =>
    LET g  == TheGrid
        n  == board.size
        p  == op.player
        ms == LegalMoves(g, n, p)
        sc == [c \in ms |->
                 IF op.strategy = "greedy"
                 THEN Differential(GridAfter(g, n, c[1], c[2], p), n, p)
                 ELSE LET a == applyMove(heap, board, c[1], c[2], p)
                      IN  minimax(a.heap, a.obj, op.maxDepth - 1, -p, p).score]
        top   == Largest({sc[c] : c \in ms})
        bests == {c \in ms : sc[c] = top}
    IN  /\ ret.value \in bests
        /\ \A c \in bests : ScanOrder(n, ret.value) <= ScanOrder(n, c)

\* A greedy or minimax call has just returned a move that is not the first
\* legal move of the scan, on a board where a later move has the same score.
C16_Witness ==
  /\ op.name = "getBestMove" /\ op.strategy \in {"greedy", "minimax"}
  /\ ret.value # Null
  /\ LET moves == getValidMoves(heap, board, op.player)
         score(m) == LET a == applyMove(heap, board, m[1], m[2], op.player)
                     IN  IF op.strategy = "greedy"
                         THEN StoneDiff(a.heap, a.obj, op.player)
                         ELSE minimax(a.heap, a.obj, op.maxDepth - 1,
                                      -op.player, op.player).score
     IN  /\ ret.value # moves[1]
         /\ \E i \in 1 .. Len(moves), j \in 1 .. Len(moves) :
              /\ moves[i] = ret.value /\ j > i
              /\ score(moves[j]) = score(moves[i])

\* C17: in minimax, a node of depth > 0 on a board that is not game over and
\* whose mover has no legal move is a forced pass: its value is
\* minimax(same board, depth - 1, -mover, maximizer), one ply less and no more,
\* and the pass changes no cell of the board.  Checked on every board a search
\* evaluated, for either mover and every depth from 1 to MaxDepth.
C17_ForcedPassKeepsBoard ==
  \A a \in SearchedNodes, mv \in Players :
    LET g == Grid(a.heap, a.obj)
        n == a.obj.size
    IN  (NoLegalMove(g, n, mv) /\ ~NoLegalMove(g, n, -mv)) =>
          \A d \in 1 .. MaxDepth :
            LET r == minimax(a.heap, a.obj, d, mv, op.player)
            IN  /\ r.score = minimax(a.heap, a.obj, d - 1, -mv, op.player).score
                /\ r.score = Value(g, n, d - 1, -mv, op.player)
                /\ r.heap = a.heap
                /\ Grid(r.heap, a.obj) = g

\* A minimax search of depth 2 or more has just gone through a board where
\* the opponent, to move, has no legal move and the player has one, and where
\* the value of that node two plies deep is not the score of the board: the
\* node is not a leaf.
C17_Witness ==
  /\ op.name = "getBestMove" /\ op.strategy = "minimax" /\ op.maxDepth >= 2
  /\ \E a \in SearchedNodes :
       /\ Len(getValidMoves(a.heap, a.obj, -op.player)) = 0
       /\ Len(getValidMoves(a.heap, a.obj, op.player)) > 0
       /\ minimax(a.heap, a.obj, 2, -op.player, op.player).score
            # evaluate(a.heap, a.obj, op.player)

\* C18: when aiTurn runs on the AI's turn with the game not over: if the AI
\* has no legal move, currentPlayer becomes the human and every grid cell stays
\* as it was; if it has one, exactly one stone, a stone of the AI, is placed
\* on an empty cell by a legal move and currentPlayer becomes the human.
C18_AiTurnPassesOrPlacesOne ==
  [][LET g  == Grid(heap, board)
         g2 == Grid(heap', board')
         n  == board.size
     IN  (/\ op'.name = "aiTurn"
          /\ board.currentPlayer = aiPlayer
          /\ ~(NoLegalMove(g, n, 1) /\ NoLegalMove(g, n, -1))) =>
           /\ board'.currentPlayer = humanPlayer
           /\ IF NoLegalMove(g, n, aiPlayer)
              THEN g2 = g
              ELSE \E c \in LegalMoves(g, n, aiPlayer) :
                     /\ g2 = GridAfter(g, n, c[1], c[2], aiPlayer)
                     /\ {e \in Cells : g[e[2]][e[1]] = 0 /\ g2[e[2]][e[1]] # 0} = {c}
                     /\ g2[c[2]][c[1]] = aiPlayer]_vars

\* aiTurn has just passed: the AI had no legal move and the human has one.
C18_Witness ==
  /\ op.name = "aiTurn" /\ ret.value = "passed"
  /\ NoLegalMove(TheGrid, board.size, aiPlayer)
  /\ board.currentPlayer = humanPlayer

\* C19: in the game loop no player without a legal move is left as the player
\* to move while the game is not over, so that play always reaches a board
\* where isGameOver() is true.  The AI waiting for its pending timer, which
\* will pass for it, does not count as left to move.
C19_NoPlayerLeftStuck ==
  LET g == TheGrid
      n == board.size
  IN  (~isGameOver(heap, board) /\ NoLegalMove(g, n, board.currentPlayer)) =>
        (board.currentPlayer = aiPlayer /\ timers > 0)

\* C20: under every interleaving of cell clicks, resets and timers: a stone
\* placed on the live board is the only stone placed in its step and belongs
\* to the player who was currentPlayer; aiTurn places or passes only when
\* currentPlayer is the AI, and gives the turn to the human; humanClick places
\* only when currentPlayer is the human; the turn goes from the human to the
\* AI by a human move only, so that the AI never acts twice without a human
\* move in between; and whenever currentPlayer is the AI and the game is not
\* over, a timer is pending.
C20_TurnsRespected ==
  /\ []((board.currentPlayer = aiPlayer /\ ~isGameOver(heap, board)) => timers > 0)
  /\ [][LET g  == Grid(heap, board)
            g2 == Grid(heap', board')
        IN  /\ (op'.name # "reset" /\ g2 # g) =>
                 \E c \in Cells :
                   /\ {e \in Cells : g[e[2]][e[1]] = 0 /\ g2[e[2]][e[1]] # 0} = {c}
                   /\ g2[c[2]][c[1]] = board.currentPlayer
                   /\ op'.player = board.currentPlayer
            /\ (op'.name = "aiTurn" /\ ret'.value \in {"moved", "passed"}) =>
                 /\ board.currentPlayer = aiPlayer
                 /\ board'.currentPlayer = humanPlayer
            /\ (op'.name = "humanClick" /\ ret'.value = "moved") =>
                 board.currentPlayer = humanPlayer
            /\ (board.currentPlayer = humanPlayer /\ board'.currentPlayer = aiPlayer) =>
                 (op'.name = "humanClick" /\ ret'.value = "moved")]_vars

\* aiTurn has just placed a stone while another timer is still pending: a
\* timer set before a reset ran first.
C20_Witness ==
  /\ op.name = "aiTurn" /\ ret.value = "moved"
  /\ timers >= 1

====
